---- MODULE Spec2Model ----
(***************************************************************************)
(* copyforward: four matchers (GreedySubstring, HashedGreedy,              *)
(* HashedGreedyBinary, CappedHashedGreedy) that encode each message of an  *)
(* ordered list as Literal / Reference segments over earlier messages, and *)
(* render_with, which rebuilds text from the segments.                     *)
(*                                                                         *)
(* Indices (message_idx, start, cursor, i) are 0-based as in the source;   *)
(* a message is a sequence of bytes, so byte c of msg is msg[c + 1].       *)
(* A u64 is a tuple of HashBytes limbs of 8 bits, least significant first, *)
(* so that wrapping arithmetic is exactly arithmetic modulo 2^64.          *)
(***************************************************************************)
EXTENDS Integers, Sequences, FiniteSets, TLC

\* ---------------------------------------------------------------- bounds
MaxMsgs == 3
MaxLen == 2
MaxPairLen == 3
MaxMinMatchLen == 2
MaxLookback == 1
MaxRenders == 2
MaxReuseMsgs == 2
MaxHashLen == 17

\* ------------------------------------------------------ program constants
base == 257
HashBytes == 8
MaxCandidates == 64
CAP_LEN == 64
NCAP == 64

\* ------------------------------------------------------------ u64 values
LimbRange == 1..HashBytes

RECURSIVE Propagate(_, _, _)
Propagate(cols, idx, carry) ==
    IF idx > HashBytes THEN <<>>
    ELSE LET t == cols[idx] + carry
         IN  <<t % 256>> \o Propagate(cols, idx + 1, t \div 256)

U64Of(n) == [idx \in LimbRange |->
                IF idx = 1 THEN n % 256
                ELSE IF idx = 2 THEN (n \div 256) % 256
                ELSE IF idx = 3 THEN (n \div 65536) % 256
                ELSE 0]

\* mutant of wrapping_add: the sum is kept in 8 bits (w = 8, so base^k > 2^w)
wrapping_add_u8(a, b) == U64Of((a[1] + b[1]) % 256)

wrapping_add(a, b) == Propagate([idx \in LimbRange |-> a[idx] + b[idx]], 1, 0)

wrapping_sub(a, b) ==
    Propagate([idx \in LimbRange |-> a[idx] + (255 - b[idx])], 1, 1)

RECURSIVE ColumnSum(_, _, _, _)
ColumnSum(a, b, n, idx) ==
    IF idx > n THEN 0
    ELSE a[idx] * b[n + 1 - idx] + ColumnSum(a, b, n, idx + 1)

wrapping_mul(a, b) ==
    Propagate([n \in LimbRange |-> ColumnSum(a, b, n, 1)], 1, 0)

\* prefix_hashes: h[r] and p[r] for r = 0..len, stored at index r + 1; the
\* loop `for &b in s`, where h.last() is h[Len(h)] and b is s[Len(h)]
\* The Steps operators run at most n iterations of their loop from a given
\* state, the exit test (Ended) before each iteration, as a first and a second
\* half.
RECURSIVE PrefixHSteps(_, _, _)
PrefixHSteps(s, n, h) ==
    LET Ended(cur) ==
            Len(cur) > Len(s)
    IN  IF n <= 0 THEN h
        ELSE IF n = 1
        THEN IF Ended(h) THEN h
             ELSE Append(h, wrapping_add(wrapping_mul(h[Len(h)], U64Of(base)), U64Of(s[Len(h)])))
        ELSE LET half == PrefixHSteps(s, n \div 2, h)
             IN  IF Ended(half) THEN half
                 ELSE PrefixHSteps(s, n - n \div 2, half)

PrefixH(s, h) ==
    PrefixHSteps(s, Len(s), h)

RECURSIVE PrefixPSteps(_, _, _)
PrefixPSteps(s, n, p) ==
    LET Ended(cur) ==
            Len(cur) > Len(s)
    IN  IF n <= 0 THEN p
        ELSE IF n = 1
        THEN IF Ended(p) THEN p
             ELSE Append(p, wrapping_mul(p[Len(p)], U64Of(base)))
        ELSE LET half == PrefixPSteps(s, n \div 2, p)
             IN  IF Ended(half) THEN half
                 ELSE PrefixPSteps(s, n - n \div 2, half)

PrefixP(s, p) ==
    PrefixPSteps(s, Len(s), p)

prefix_hashes(s) == [h |-> PrefixH(s, <<U64Of(0)>>), p |-> PrefixP(s, <<U64Of(1)>>)]

\* mutant of range_hash: h[l] is subtracted without the factor p[r - l]
range_hash_unscaled(pref, l, r) == wrapping_sub(pref.h[r + 1], pref.h[l + 1])

range_hash(pref, l, r) ==
    wrapping_sub(pref.h[r + 1], wrapping_mul(pref.h[l + 1], pref.p[r - l + 1]))

\* ------------------------------------------------------------- segments
Literal(t) == [kind |-> "Literal", text |-> t]

Reference(midx, ref_start, match_len) ==
    [kind |-> "Reference", message_idx |-> midx, start |-> ref_start, len |-> match_len]

IsReference(seg) == seg.kind = "Reference"

IsLiteral(seg) == seg.kind = "Literal"

\* Option<(len, msg_idx, ref_start)>
NoMatch == [some |-> FALSE, len |-> 0, midx |-> 0, ref_start |-> 0]

SomeMatch(match_len, j, rs) == [some |-> TRUE, len |-> match_len, midx |-> j, ref_start |-> rs]

\* Option<usize> of GreedySubstringConfig.lookback
NoLookback == [some |-> FALSE, val |-> 0]

SomeLookback(n) == [some |-> TRUE, val |-> n]

\* mutant of Slice: the range loses its last byte
SliceDropsLast(msg, from, to) == SubSeq(msg, from + 1, to - 1)

\* msg[from..to] as bytes (0-based, to exclusive)
Slice(msg, from, to) == SubSeq(msg, from + 1, to)

\* str::is_char_boundary: the ends of the string, or a byte that is not a
\* UTF-8 continuation byte (0x80..0xBF)
is_char_boundary(msg, index) ==
    IF index = 0 \/ index = Len(msg) THEN TRUE
    ELSE IF index > Len(msg) THEN FALSE
    ELSE msg[index + 1] \notin 128..191

\* whether the string slice msg[from..to] is taken without a panic
SliceOk(msg, from, to) ==
    /\ from <= to
    /\ to <= Len(msg)
    /\ is_char_boundary(msg, from)
    /\ is_char_boundary(msg, to)

\* ------------------------------------------------------- GreedySubstring
\* mutant of ExtendWhileEqual: the byte comparison is missing
ExtendWhileInBounds(bytes, prev_bytes, cursor, ref_start, match_len) ==
    LET left == Len(bytes) - cursor
        left_prev == Len(prev_bytes) - ref_start
        room == IF left <= left_prev THEN left ELSE left_prev
    IN  IF room > match_len THEN room ELSE match_len

\* the byte-by-byte `while` shared by the matchers: grows match_len while the
\* bytes at cursor + match_len and ref_start + match_len exist and are equal
RECURSIVE ExtendWhileEqualSteps(_, _, _, _, _, _)
ExtendWhileEqualSteps(bytes, prev_bytes, cursor, ref_start, n, match_len) ==
    LET Ended(cur) ==
            ~(/\ cursor + cur < Len(bytes)
                         /\ ref_start + cur < Len(prev_bytes)
                         /\ bytes[cursor + cur + 1] = prev_bytes[ref_start + cur + 1])
    IN  IF n <= 0 THEN match_len
        ELSE IF n = 1
        THEN IF Ended(match_len) THEN match_len
             ELSE match_len + 1
        ELSE LET half == ExtendWhileEqualSteps(bytes, prev_bytes, cursor, ref_start, n \div 2, match_len)
             IN  IF Ended(half) THEN half
                 ELSE ExtendWhileEqualSteps(bytes, prev_bytes, cursor, ref_start, n - n \div 2, half)

ExtendWhileEqual(bytes, prev_bytes, cursor, ref_start, match_len) ==
    ExtendWhileEqualSteps(bytes, prev_bytes, cursor, ref_start, Len(bytes), match_len)

\* mutant of GreedyEligible: the lookback window is one message too wide
GreedyEligibleOffByOne(msgs, cfg, i, j) ==
    /\ Len(msgs[j + 1]) > 0
    /\ ~(cfg.lookback.some /\ i - j > cfg.lookback.val + 1)

\* the two `continue`s at the head of the loop over earlier messages
GreedyEligible(msgs, cfg, i, j) ==
    /\ Len(msgs[j + 1]) > 0
    /\ ~(cfg.lookback.some /\ i - j > cfg.lookback.val)

\* mutant of GreedyKeepLongest: the min_match_len threshold is missing
GreedyKeepAnyLength(cfg, best, match_len) == ~best.some \/ match_len > best.len

\* mutant of GreedyKeepLongest: a later match of the same length replaces the best
GreedyKeepLast(cfg, best, match_len) ==
    match_len >= cfg.min_match_len /\ (~best.some \/ match_len >= best.len)

\* whether best_match is replaced: the two nested `if`s after the extension
GreedyKeepLongest(cfg, best, match_len) ==
    match_len >= cfg.min_match_len /\ (~best.some \/ match_len > best.len)

RECURSIVE GreedyScanStartsSteps(_, _, _, _, _, _, _)
GreedyScanStartsSteps(msgs, cfg, i, cursor, j, n, st) ==
    LET Ended(cur) ==
            cur.ref_start >= Len(msgs[j + 1])
    IN  IF n <= 0 THEN st
        ELSE IF n = 1
        THEN IF Ended(st) THEN st
             ELSE LET msg == msgs[i + 1]
                      prev_msg == msgs[j + 1]
                  IN  IF cursor >= Len(msg) \/ msg[cursor + 1] # prev_msg[st.ref_start + 1]
                      THEN [ref_start |-> st.ref_start + 1, best |-> st.best]
                      ELSE LET match_len == ExtendWhileEqual(msg, prev_msg, cursor, st.ref_start, 0)
                           IN  IF GreedyKeepLongest(cfg, st.best, match_len)
                               THEN [ref_start |-> st.ref_start + 1,
                                     best |-> SomeMatch(match_len, j, st.ref_start)]
                               ELSE [ref_start |-> st.ref_start + 1, best |-> st.best]
        ELSE LET half == GreedyScanStartsSteps(msgs, cfg, i, cursor, j, n \div 2, st)
             IN  IF Ended(half) THEN half
                 ELSE GreedyScanStartsSteps(msgs, cfg, i, cursor, j, n - n \div 2, half)

GreedyScanStarts(msgs, cfg, i, cursor, j, ref_start, best) ==
    GreedyScanStartsSteps(msgs, cfg, i, cursor, j, Len(msgs[j + 1]),
        [ref_start |-> ref_start, best |-> best]).best

RECURSIVE GreedyScanMessages(_, _, _, _, _, _)
GreedyScanMessages(msgs, cfg, i, cursor, j, best) ==
    IF j >= i THEN best
    ELSE IF ~GreedyEligible(msgs, cfg, i, j)
    THEN GreedyScanMessages(msgs, cfg, i, cursor, j + 1, best)
    ELSE GreedyScanMessages(msgs, cfg, i, cursor, j + 1,
             GreedyScanStarts(msgs, cfg, i, cursor, j, 0, best))

GreedyBestMatch(msgs, cfg, i, cursor) == GreedyScanMessages(msgs, cfg, i, cursor, 0, NoMatch)

\* found_match of the literal-growth loop at position literal_end
GreedyFoundMatch(msgs, cfg, i, literal_end) ==
    \E j \in 0..(i - 1) :
        /\ GreedyEligible(msgs, cfg, i, j)
        /\ \E ref_start \in 0..(Len(msgs[j + 1]) - 1) :
              /\ literal_end < Len(msgs[i + 1])
              /\ msgs[i + 1][literal_end + 1] = msgs[j + 1][ref_start + 1]
              /\ ExtendWhileEqual(msgs[i + 1], msgs[j + 1], literal_end, ref_start, 0)
                    >= cfg.min_match_len

\* mutant of GreedyLiteralEnd: literal_end is not moved past the cursor
GreedyLiteralStays(msgs, cfg, i, literal_end) == literal_end - 1

\* mutant of GreedyLiteralEnd: the literal always runs to the end of the message
GreedyLiteralToEnd(msgs, cfg, i, literal_end) == Len(msgs[i + 1])

RECURSIVE GreedyLiteralEndSteps(_, _, _, _, _)
GreedyLiteralEndSteps(msgs, cfg, i, n, literal_end) ==
    LET Ended(cur) ==
            cur >= Len(msgs[i + 1])
            \/ GreedyFoundMatch(msgs, cfg, i, cur)
    IN  IF n <= 0 THEN literal_end
        ELSE IF n = 1
        THEN IF Ended(literal_end) THEN literal_end
             ELSE literal_end + 1
        ELSE LET half == GreedyLiteralEndSteps(msgs, cfg, i, n \div 2, literal_end)
             IN  IF Ended(half) THEN half
                 ELSE GreedyLiteralEndSteps(msgs, cfg, i, n - n \div 2, half)

GreedyLiteralEnd(msgs, cfg, i, literal_end) ==
    GreedyLiteralEndSteps(msgs, cfg, i, Len(msgs[i + 1]), literal_end)

\* ---------------------------------------------------------- HashedGreedy
\* HashMap<u64, Vec<..>>: a function from the keys present to their buckets
EmptyTable == [key \in {} |-> <<>>]

\* push onto the bucket of a key the table holds
BucketPush(table, h, entry) == [table EXCEPT ![h] = Append(@, entry)]

\* or_default() for a key the table lacks, then push
BucketNew(table, h, entry) ==
    [key \in (DOMAIN table) \cup {h} |-> IF key = h THEN <<entry>> ELSE table[key]]

\* table.entry(h).or_default().push(entry)
TablePush(table, h, entry) ==
    IF h \in DOMAIN table THEN BucketPush(table, h, entry) ELSE BucketNew(table, h, entry)

RECURSIVE InsertKmersFromSteps(_, _, _, _, _, _)
InsertKmersFromSteps(msgs, prefs, j, k, n, st) ==
    LET Ended(cur) ==
            cur.start > Len(msgs[j + 1]) - k
    IN  IF n <= 0 THEN st
        ELSE IF n = 1
        THEN IF Ended(st) THEN st
             ELSE LET h == range_hash(prefs[j + 1], st.start, st.start + k)
                  IN  [table |-> TablePush(st.table, h, <<j, st.start>>), start |-> st.start + 1]
        ELSE LET half == InsertKmersFromSteps(msgs, prefs, j, k, n \div 2, st)
             IN  IF Ended(half) THEN half
                 ELSE InsertKmersFromSteps(msgs, prefs, j, k, n - n \div 2, half)

InsertKmersFrom(table, msgs, prefs, j, k, start) ==
    InsertKmersFromSteps(msgs, prefs, j, k, Len(msgs[j + 1]) + 1,
        [table |-> table, start |-> start]).table

\* mutant of insert_kmers_into_table: indexes the message about to be matched
insert_kmers_of_current(table, msgs, prefs, j, k) ==
    IF Len(msgs[j + 2]) >= k THEN InsertKmersFrom(table, msgs, prefs, j + 1, k, 0) ELSE table

\* mutant of insert_kmers_into_table: a message of exactly k bytes is not indexed
insert_kmers_when_longer(table, msgs, prefs, j, k) ==
    IF Len(msgs[j + 1]) > k THEN InsertKmersFrom(table, msgs, prefs, j, k, 0) ELSE table

insert_kmers_into_table(table, msgs, prefs, j, k) ==
    IF Len(msgs[j + 1]) >= k THEN InsertKmersFrom(table, msgs, prefs, j, k, 0) ELSE table

\* mutant of extend_candidate: the candidate is not extended past initial_k
extend_candidate_none(bytes, prev_bytes, cursor, ref_start, initial_k) == initial_k

extend_candidate(bytes, prev_bytes, cursor, ref_start, initial_k) ==
    ExtendWhileEqual(bytes, prev_bytes, cursor, ref_start, initial_k)

\* mutant of KeepLongest: a later candidate of the same length replaces the best
KeepLast(best, match_len) == ~best.some \/ match_len >= best.len

\* whether best_match is replaced by a candidate of length match_len
KeepLongest(best, match_len) == ~best.some \/ match_len > best.len

\* mutant of HashedScanCands: every candidate of the bucket is examined
RECURSIVE HashedScanAllCandsSteps(_, _, _, _, _, _, _)
HashedScanAllCandsSteps(msgs, i, cursor, k, cands, n, st) ==
    LET Ended(cur) ==
            cur.idx > Len(cands)
    IN  IF n <= 0 THEN st
        ELSE IF n = 1
        THEN IF Ended(st) THEN st
             ELSE LET midx == cands[st.idx][1]
                      ref_start == cands[st.idx][2]
                      match_len == ExtendWhileEqual(msgs[i + 1], msgs[midx + 1], cursor, ref_start, k)
                  IN  IF ~st.best.some \/ match_len > st.best.len
                      THEN [idx |-> st.idx + 1, best |-> SomeMatch(match_len, midx, ref_start)]
                      ELSE [idx |-> st.idx + 1, best |-> st.best]
        ELSE LET half == HashedScanAllCandsSteps(msgs, i, cursor, k, cands, n \div 2, st)
             IN  IF Ended(half) THEN half
                 ELSE HashedScanAllCandsSteps(msgs, i, cursor, k, cands, n - n \div 2, half)

HashedScanAllCands(msgs, i, cursor, k, cands, idx, best) ==
    HashedScanAllCandsSteps(msgs, i, cursor, k, cands, Len(cands),
        [idx |-> idx, best |-> best]).best

\* the loop over cands.iter(), examined = idx - 1 entries so far
RECURSIVE HashedScanCandsSteps(_, _, _, _, _, _, _)
HashedScanCandsSteps(msgs, i, cursor, k, cands, n, st) ==
    LET Ended(cur) ==
            cur.idx > Len(cands) \/ cur.idx - 1 >= MaxCandidates
    IN  IF n <= 0 THEN st
        ELSE IF n = 1
        THEN IF Ended(st) THEN st
             ELSE LET midx == cands[st.idx][1]
                      ref_start == cands[st.idx][2]
                      match_len == extend_candidate(msgs[i + 1], msgs[midx + 1], cursor, ref_start, k)
                  IN  IF KeepLongest(st.best, match_len)
                      THEN [idx |-> st.idx + 1, best |-> SomeMatch(match_len, midx, ref_start)]
                      ELSE [idx |-> st.idx + 1, best |-> st.best]
        ELSE LET half == HashedScanCandsSteps(msgs, i, cursor, k, cands, n \div 2, st)
             IN  IF Ended(half) THEN half
                 ELSE HashedScanCandsSteps(msgs, i, cursor, k, cands, n - n \div 2, half)

HashedScanCands(msgs, i, cursor, k, cands, idx, best) ==
    HashedScanCandsSteps(msgs, i, cursor, k, cands, Len(cands),
        [idx |-> idx, best |-> best]).best

HashedBestMatch(msgs, prefs, table, k, i, cursor) ==
    IF Len(msgs[i + 1]) >= cursor + k /\ k > 0
    THEN LET key == range_hash(prefs[i + 1], cursor, cursor + k)
         IN  IF key \in DOMAIN table
             THEN HashedScanCands(msgs, i, cursor, k, table[key], 1, NoMatch)
             ELSE NoMatch
    ELSE NoMatch

\* mutant of HashedLiteralEnd: the literal always runs to the end of the message
HashedLiteralToEnd(msgs, prefs, tbl, k, m, literal_end) == Len(msgs[m + 1])

\* literal growth of the three hashed matchers: stop at the first position
\* whose k-mer hash is a key of the table
RECURSIVE HashedLiteralEndSteps(_, _, _, _, _, _, _)
HashedLiteralEndSteps(msgs, prefs, table, k, i, n, literal_end) ==
    LET Ended(cur) ==
            cur >= Len(msgs[i + 1])
            \/ (/\ Len(msgs[i + 1]) >= cur + k
                /\ k > 0
                /\ range_hash(prefs[i + 1], cur, cur + k) \in DOMAIN table)
    IN  IF n <= 0 THEN literal_end
        ELSE IF n = 1
        THEN IF Ended(literal_end) THEN literal_end
             ELSE literal_end + 1
        ELSE LET half == HashedLiteralEndSteps(msgs, prefs, table, k, i, n \div 2, literal_end)
             IN  IF Ended(half) THEN half
                 ELSE HashedLiteralEndSteps(msgs, prefs, table, k, i, n - n \div 2, half)

HashedLiteralEnd(msgs, prefs, table, k, i, literal_end) ==
    HashedLiteralEndSteps(msgs, prefs, table, k, i, Len(msgs[i + 1]), literal_end)

\* ---------------------------------------------------- HashedGreedyBinary
Min(a, b) == IF a <= b THEN a ELSE b

\* mutant of BinarySearch: the upper bound is returned without a comparison
BinarySearchTakesHigh(pref_cur, pref_prev, cursor, ref_start, low, high) ==
    IF low < high THEN high ELSE low

\* `while low < high` of extend_candidate_binary and extend_candidate_full
\* one iteration of the loop: the new <<low, high>>
BinaryStep(pref_cur, pref_prev, cursor, ref_start, low, high) ==
    LET mid == (low + high + 1) \div 2
        h1 == range_hash(pref_cur, cursor, cursor + mid)
        h2 == range_hash(pref_prev, ref_start, ref_start + mid)
    IN  IF h1 = h2 THEN <<mid, high>> ELSE <<low, mid - 1>>

RECURSIVE BinarySearch(_, _, _, _, _, _)
BinarySearch(pref_cur, pref_prev, cursor, ref_start, low, high) ==
    IF low < high
    THEN LET bounds == BinaryStep(pref_cur, pref_prev, cursor, ref_start, low, high)
         IN  BinarySearch(pref_cur, pref_prev, cursor, ref_start, bounds[1], bounds[2])
    ELSE low

extend_candidate_binary(pref_cur, pref_prev, cursor, ref_start, initial_k) ==
    LET max_possible == Min(Len(pref_cur.h) - 1 - cursor, Len(pref_prev.h) - 1 - ref_start)
    IN  BinarySearch(pref_cur, pref_prev, cursor, ref_start, initial_k, max_possible)

RECURSIVE BinaryScanCandsSteps(_, _, _, _, _, _, _)
BinaryScanCandsSteps(prefs, i, cursor, k, cands, n, st) ==
    LET Ended(cur) ==
            cur.idx > Len(cands) \/ cur.idx - 1 >= MaxCandidates
    IN  IF n <= 0 THEN st
        ELSE IF n = 1
        THEN IF Ended(st) THEN st
             ELSE LET midx == cands[st.idx][1]
                      ref_start == cands[st.idx][2]
                      match_len == extend_candidate_binary(prefs[i + 1], prefs[midx + 1],
                                                           cursor, ref_start, k)
                  IN  IF KeepLongest(st.best, match_len)
                      THEN [idx |-> st.idx + 1, best |-> SomeMatch(match_len, midx, ref_start)]
                      ELSE [idx |-> st.idx + 1, best |-> st.best]
        ELSE LET half == BinaryScanCandsSteps(prefs, i, cursor, k, cands, n \div 2, st)
             IN  IF Ended(half) THEN half
                 ELSE BinaryScanCandsSteps(prefs, i, cursor, k, cands, n - n \div 2, half)

BinaryScanCands(prefs, i, cursor, k, cands, idx, best) ==
    BinaryScanCandsSteps(prefs, i, cursor, k, cands, Len(cands),
        [idx |-> idx, best |-> best]).best

BinaryBestMatch(msgs, prefs, table, k, i, cursor) ==
    IF Len(msgs[i + 1]) >= cursor + k /\ k > 0
    THEN LET key == range_hash(prefs[i + 1], cursor, cursor + k)
         IN  IF key \in DOMAIN table
             THEN BinaryScanCands(prefs, i, cursor, k, table[key], 1, NoMatch)
             ELSE NoMatch
    ELSE NoMatch

\* ---------------------------------------------------- CappedHashedGreedy
Entry(cap_h, j, s) == [cap_hash |-> cap_h, msg_idx |-> j, start |-> s]

\* st = [table, seen]: the k-mer table and the global set of (kmer, cap) pairs
RECURSIVE CappedInsertFromSteps(_, _, _, _, _, _)
CappedInsertFromSteps(msgs, prefs, j, k, n, x) ==
    LET Ended(cur) ==
            cur.start > Len(msgs[j + 1]) - k
    IN  IF n <= 0 THEN x
        ELSE IF n = 1
        THEN IF Ended(x) THEN x
             ELSE LET h == range_hash(prefs[j + 1], x.start, x.start + k)
                      cap_end == Min(Len(msgs[j + 1]), x.start + CAP_LEN)
                      cap_h == range_hash(prefs[j + 1], x.start, cap_end)
                      key == <<h, cap_h>>
                  IN  IF key \in x.st.seen
                      THEN [st |-> x.st, start |-> x.start + 1]
                      ELSE [st |-> [table |-> TablePush(x.st.table, h, Entry(cap_h, j, x.start)),
                                    seen |-> x.st.seen \cup {key}],
                            start |-> x.start + 1]
        ELSE LET half == CappedInsertFromSteps(msgs, prefs, j, k, n \div 2, x)
             IN  IF Ended(half) THEN half
                 ELSE CappedInsertFromSteps(msgs, prefs, j, k, n - n \div 2, half)

CappedInsertFrom(st, msgs, prefs, j, k, start) ==
    CappedInsertFromSteps(msgs, prefs, j, k, Len(msgs[j + 1]) + 1,
        [st |-> st, start |-> start]).st

\* mutant of capped_insert_kmers_into_table: every occurrence is pushed, the
\* seen set is not consulted
RECURSIVE CappedInsertAllFromSteps(_, _, _, _, _, _)
CappedInsertAllFromSteps(msgs, prefs, j, k, n, x) ==
    LET Ended(cur) ==
            cur.start > Len(msgs[j + 1]) - k
    IN  IF n <= 0 THEN x
        ELSE IF n = 1
        THEN IF Ended(x) THEN x
             ELSE LET h == range_hash(prefs[j + 1], x.start, x.start + k)
                      cap_end == Min(Len(msgs[j + 1]), x.start + CAP_LEN)
                      cap_h == range_hash(prefs[j + 1], x.start, cap_end)
                      key == <<h, cap_h>>
                  IN  [st |-> [table |-> TablePush(x.st.table, h, Entry(cap_h, j, x.start)),
                               seen |-> x.st.seen \cup {key}],
                       start |-> x.start + 1]
        ELSE LET half == CappedInsertAllFromSteps(msgs, prefs, j, k, n \div 2, x)
             IN  IF Ended(half) THEN half
                 ELSE CappedInsertAllFromSteps(msgs, prefs, j, k, n - n \div 2, half)

CappedInsertAllFrom(st, msgs, prefs, j, k, start) ==
    CappedInsertAllFromSteps(msgs, prefs, j, k, Len(msgs[j + 1]) + 1,
        [st |-> st, start |-> start]).st

capped_insert_kmers_without_dedup(st, msgs, prefs, j, k) ==
    IF Len(msgs[j + 1]) >= k THEN CappedInsertAllFrom(st, msgs, prefs, j, k, 0) ELSE st

capped_insert_kmers_into_table(st, msgs, prefs, j, k) ==
    IF Len(msgs[j + 1]) >= k THEN CappedInsertFrom(st, msgs, prefs, j, k, 0) ELSE st

RECURSIVE extend_candidate_cappedSteps(_, _, _, _, _, _)
extend_candidate_cappedSteps(bytes, prev_bytes, cursor, ref_start, n, match_len) ==
    LET Ended(cur) ==
            ~(/\ cur < CAP_LEN
                         /\ cursor + cur < Len(bytes)
                         /\ ref_start + cur < Len(prev_bytes)
                         /\ bytes[cursor + cur + 1] = prev_bytes[ref_start + cur + 1])
    IN  IF n <= 0 THEN match_len
        ELSE IF n = 1
        THEN IF Ended(match_len) THEN match_len
             ELSE match_len + 1
        ELSE LET half == extend_candidate_cappedSteps(bytes, prev_bytes, cursor, ref_start, n \div 2, match_len)
             IN  IF Ended(half) THEN half
                 ELSE extend_candidate_cappedSteps(bytes, prev_bytes, cursor, ref_start, n - n \div 2, half)

extend_candidate_capped(bytes, prev_bytes, cursor, ref_start, match_len) ==
    extend_candidate_cappedSteps(bytes, prev_bytes, cursor, ref_start, CAP_LEN, match_len)

\* mutant of extend_candidate_full: gives back less than it was handed
extend_candidate_full_short(pref_cur, pref_prev, cursor, ref_start, initial_k) ==
    initial_k - 1

extend_candidate_full(pref_cur, pref_prev, cursor, ref_start, initial_k) ==
    LET max_possible == Min(Len(pref_cur.h) - 1 - cursor, Len(pref_prev.h) - 1 - ref_start)
    IN  BinarySearch(pref_cur, pref_prev, cursor, ref_start, initial_k, max_possible)

\* the loop over bucket.iter(); n_seen is the local counter `seen`
RECURSIVE CappedScanBucketSteps(_, _, _, _, _, _, _, _)
CappedScanBucketSteps(msgs, i, cursor, k, cap_hash_cur, bucket, n, st) ==
    LET Ended(cur) ==
            cur.idx > Len(bucket) \/ cur.n_seen >= NCAP
    IN  IF n <= 0 THEN st
        ELSE IF n = 1
        THEN IF Ended(st) THEN st
             ELSE LET e == bucket[st.idx]
                  IN  IF e.msg_idx >= i
                      THEN [idx |-> st.idx + 1, n_seen |-> st.n_seen, best |-> st.best]
                      ELSE IF e.cap_hash # cap_hash_cur
                      THEN [idx |-> st.idx + 1, n_seen |-> st.n_seen + 1, best |-> st.best]
                      ELSE LET match_len == extend_candidate_capped(msgs[i + 1], msgs[e.msg_idx + 1],
                                                                    cursor, e.start, k)
                           IN  IF KeepLongest(st.best, match_len)
                               THEN [idx |-> st.idx + 1, n_seen |-> st.n_seen + 1,
                                     best |-> SomeMatch(match_len, e.msg_idx, e.start)]
                               ELSE [idx |-> st.idx + 1, n_seen |-> st.n_seen + 1, best |-> st.best]
        ELSE LET half == CappedScanBucketSteps(msgs, i, cursor, k, cap_hash_cur, bucket, n \div 2, st)
             IN  IF Ended(half) THEN half
                 ELSE CappedScanBucketSteps(msgs, i, cursor, k, cap_hash_cur, bucket, n - n \div 2, half)

CappedScanBucket(msgs, i, cursor, k, cap_hash_cur, bucket, idx, n_seen, best) ==
    CappedScanBucketSteps(msgs, i, cursor, k, cap_hash_cur, bucket, Len(bucket),
        [idx |-> idx, n_seen |-> n_seen, best |-> best]).best

\* the winner of the capped pre-check (before the full extension)
CappedBestMatch(msgs, prefs, table, k, i, cursor) ==
    IF Len(msgs[i + 1]) >= cursor + k /\ k > 0
    THEN LET kmer_hash == range_hash(prefs[i + 1], cursor, cursor + k)
             cap_end_cur == Min(Len(msgs[i + 1]), cursor + CAP_LEN)
             cap_hash_cur == range_hash(prefs[i + 1], cursor, cap_end_cur)
         IN  IF kmer_hash \in DOMAIN table
             THEN CappedScanBucket(msgs, i, cursor, k, cap_hash_cur,
                                   table[kmer_hash], 1, 0, NoMatch)
             ELSE NoMatch
    ELSE NoMatch

\* mutant of CoalesceRun: a following Reference to the same message is absorbed
\* wherever it starts
RECURSIVE CoalesceRunAnyStart(_, _, _, _, _)
CoalesceRunAnyStart(segs, idx, cur_msg, cur_start, cur_len) ==
    IF /\ idx <= Len(segs)
       /\ IsReference(segs[idx])
       /\ segs[idx].message_idx = cur_msg
    THEN CoalesceRunAnyStart(segs, idx + 1, cur_msg, cur_start, cur_len + segs[idx].len)
    ELSE [next |-> idx, len |-> cur_len]

\* the inner `while` of the coalescing pass: absorbs the references that
\* continue (cur_msg, cur_start + cur_len); returns the next index and the length
RECURSIVE CoalesceRun(_, _, _, _, _)
CoalesceRun(segs, idx, cur_msg, cur_start, cur_len) ==
    IF /\ idx <= Len(segs)
       /\ IsReference(segs[idx])
       /\ segs[idx].message_idx = cur_msg
       /\ segs[idx].start = cur_start + cur_len
    THEN CoalesceRun(segs, idx + 1, cur_msg, cur_start, cur_len + segs[idx].len)
    ELSE [next |-> idx, len |-> cur_len]

RECURSIVE CoalesceFrom(_, _, _)
CoalesceFrom(segs, idx, out) ==
    IF idx > Len(segs) THEN out
    ELSE IF IsReference(segs[idx])
    THEN LET run == CoalesceRun(segs, idx + 1, segs[idx].message_idx,
                                segs[idx].start, segs[idx].len)
         IN  CoalesceFrom(segs, run.next,
                 Append(out, Reference(segs[idx].message_idx, segs[idx].start, run.len)))
    ELSE CoalesceFrom(segs, idx + 1, Append(out, Literal(segs[idx].text)))

Coalesce(all_segs) == [m \in 1..Len(all_segs) |-> CoalesceFrom(all_segs[m], 1, <<>>)]

\* ------------------------------------------------------------ render_with
Marker == <<35>>

\* the replacer closures the callers pass: the identity on referenced_text,
\* and render_with_static's constant replacement
Replacers == {"identity", "static"}

Replacer(kind, message_idx, start, len, ref_text) ==
    IF kind = "identity" THEN ref_text ELSE Marker

Call(message_idx, ref_start, match_len, ref_text) ==
    [message_idx |-> message_idx, start |-> ref_start, len |-> match_len, text |-> ref_text]

\* mutant of RenderSegs: referenced_text is sliced from offset 0, not from start
RECURSIVE RenderSegsIgnoringStart(_, _, _, _, _)
RenderSegsIgnoringStart(msgs, kind, segs_m, idx, acc) ==
    IF idx > Len(segs_m) THEN acc
    ELSE LET seg == segs_m[idx]
         IN  IF IsLiteral(seg)
             THEN RenderSegsIgnoringStart(msgs, kind, segs_m, idx + 1,
                      [acc EXCEPT !.s = @ \o seg.text])
             ELSE IF ~SliceOk(msgs[seg.message_idx + 1], 0, seg.len)
             THEN [acc EXCEPT !.panicked = TRUE]
             ELSE LET ref_text == Slice(msgs[seg.message_idx + 1], 0, seg.len)
                      replaced == Replacer(kind, seg.message_idx, seg.start, seg.len, ref_text)
                  IN  RenderSegsIgnoringStart(msgs, kind, segs_m, idx + 1,
                          [acc EXCEPT !.s = @ \o replaced,
                                      !.calls = Append(@, Call(seg.message_idx, seg.start,
                                                               seg.len, ref_text))])

\* the loop over the segments of one message: acc = [s, calls, panicked];
\* slicing the referenced message off a char boundary panics before the call
RECURSIVE RenderSegs(_, _, _, _, _)
RenderSegs(msgs, kind, segs_m, idx, acc) ==
    IF idx > Len(segs_m) THEN acc
    ELSE LET seg == segs_m[idx]
         IN  IF IsLiteral(seg)
             THEN RenderSegs(msgs, kind, segs_m, idx + 1, [acc EXCEPT !.s = @ \o seg.text])
             ELSE IF ~SliceOk(msgs[seg.message_idx + 1], seg.start, seg.start + seg.len)
             THEN [acc EXCEPT !.panicked = TRUE]
             ELSE LET ref_text == Slice(msgs[seg.message_idx + 1], seg.start,
                                        seg.start + seg.len)
                      replaced == Replacer(kind, seg.message_idx, seg.start, seg.len, ref_text)
                  IN  RenderSegs(msgs, kind, segs_m, idx + 1,
                          [acc EXCEPT !.s = @ \o replaced,
                                      !.calls = Append(@, Call(seg.message_idx, seg.start,
                                                               seg.len, ref_text))])

\* ------------------------------- with_config and render_with as functions
\* GreedySubstring, HashedGreedy and HashedGreedyBinary run on the same input:
\* the whole construction and the identity render of one matcher, as a value
ExactAlgos == {"greedy", "hashed", "binary"}

\* the table at the head of iteration i: messages 0..i-2 indexed, then i-1
RECURSIVE TableBefore(_, _, _, _)
TableBefore(msgs, prefs, k, i) ==
    IF i = 0 \/ k = 0 THEN EmptyTable
    ELSE insert_kmers_into_table(TableBefore(msgs, prefs, k, i - 1), msgs, prefs, i - 1, k)

MatchAt(a, msgs, cfg, prefs, tbl, i, cur) ==
    IF a = "greedy" THEN GreedyBestMatch(msgs, cfg, i, cur)
    ELSE IF a = "hashed" THEN HashedBestMatch(msgs, prefs, tbl, cfg.min_match_len, i, cur)
    ELSE BinaryBestMatch(msgs, prefs, tbl, cfg.min_match_len, i, cur)

LiteralEndAt(a, msgs, cfg, prefs, tbl, i, cur) ==
    IF a = "greedy" THEN GreedyLiteralEnd(msgs, cfg, i, cur + 1)
    ELSE HashedLiteralEnd(msgs, prefs, tbl, cfg.min_match_len, i, cur + 1)

\* `while cursor < msg.len()` of message i; acc = [segs, panicked]
RECURSIVE EncodeFrom(_, _, _, _, _, _, _, _)
EncodeFrom(a, msgs, cfg, prefs, tbl, i, cur, acc) ==
    IF cur >= Len(msgs[i + 1]) THEN acc
    ELSE LET best == MatchAt(a, msgs, cfg, prefs, tbl, i, cur)
         IN  IF best.some
             THEN EncodeFrom(a, msgs, cfg, prefs, tbl, i, cur + best.len,
                      [acc EXCEPT !.segs = Append(@, Reference(best.midx, best.ref_start,
                                                               best.len))])
             ELSE LET literal_end == LiteralEndAt(a, msgs, cfg, prefs, tbl, i, cur)
                  IN  IF ~SliceOk(msgs[i + 1], cur, literal_end)
                      THEN [acc EXCEPT !.panicked = TRUE]
                      ELSE EncodeFrom(a, msgs, cfg, prefs, tbl, i, literal_end,
                               [acc EXCEPT !.segs = Append(@,
                                   Literal(Slice(msgs[i + 1], cur, literal_end)))])

\* with_config of matcher a: per message [segs, panicked]
with_config(a, msgs, cfg) ==
    LET prefs == IF a = "greedy" THEN <<>>
                 ELSE [m \in 1..Len(msgs) |-> prefix_hashes(msgs[m])]
    IN  [m \in 1..Len(msgs) |->
            EncodeFrom(a, msgs, cfg, prefs,
                       IF a = "greedy" THEN EmptyTable
                       ELSE TableBefore(msgs, prefs, cfg.min_match_len, m - 1),
                       m - 1, 0, [segs |-> <<>>, panicked |-> FALSE])]

\* with_config then render_with(identity): [ok, out], ok = neither panicked
render_identity(a, msgs, cfg) ==
    LET built == with_config(a, msgs, cfg)
        rendered == [m \in 1..Len(msgs) |->
                        RenderSegs(msgs, "identity", built[m].segs, 1,
                                   [s |-> <<>>, calls |-> <<>>, panicked |-> FALSE])]
    IN  [ok |-> \A m \in 1..Len(msgs) : ~built[m].panicked /\ ~rendered[m].panicked,
         out |-> [m \in 1..Len(msgs) |-> rendered[m].s]]

\* mutant of segments: hands out the stored segments without their last message
segments_truncated(self_inner) ==
    IF Len(self_inner) = 0 THEN self_inner ELSE SubSeq(self_inner, 1, Len(self_inner) - 1)

\* segments(): self.inner.clone()
segments(self_inner) == self_inner

\* Option<Vec<Vec<Segment>>> the caller holds from its last segments() call
NotObserved == [some |-> FALSE, value |-> <<>>]

Observed(value) == [some |-> TRUE, value |-> value]

\* ------------------------------------------------------------------ state
VARIABLES
    algo,        \* which matcher's with_config is running
    messages,    \* messages_vec
    config,      \* GreedySubstringConfig
    prefixes,    \* prefix hash tables of the hashed matchers
    table,       \* k-mer table
    seen,        \* CappedHashedGreedy's set of (kmer hash, cap hash)
    i,           \* index of the message the outer loop is at
    cursor,
    segs,        \* segments of message i so far
    inner,       \* segments of the finished messages
    pc,          \* "loop", "scan", "built", "rendering", "rendered", "panicked"
    replacer,    \* the closure given to render_with
    ri,          \* render_with: index of the next message to render
    out,         \* render_with: strings pushed so far
    calls,       \* render_with: the replacer's calls so far, in order
    observed,    \* caller: what the last segments() call returned, if any
    returned     \* caller: what the render_with calls returned, in call order

vars == <<algo, messages, config, prefixes, table, seen, i, cursor, segs, inner,
          pc, replacer, ri, out, calls, observed, returned>>

Algos == {"greedy", "hashed", "binary", "capped"}

\* ------------------------------------------------------------------ inputs
Alphabet == {97, 98}

CollA == <<67, 121, 98, 83, 86, 79, 73, 119, 77>>

CollB == <<103, 86, 98, 77, 98, 67, 80, 80, 114>>

ShortStrings == UNION {[1..n -> Alphabet] : n \in 0..MaxLen}

ShortLists == UNION {[1..n -> ShortStrings] : n \in 0..MaxMsgs}

\* two messages, each of up to MaxPairLen bytes
PairStrings == UNION {[1..n -> Alphabet] : n \in 0..MaxPairLen}

PairLists == {<<a, b>> : a \in PairStrings, b \in PairStrings}

\* two-byte UTF-8 characters sharing a lead byte or a continuation byte
Utf8Chars == {<<195, 169>>, <<195, 170>>, <<194, 170>>}

Utf8Lists == UNION {[1..n -> Utf8Chars] : n \in 1..MaxMsgs}

CollisionLists == UNION {[1..n -> {CollA, CollB}] : n \in 1..MaxMsgs}

\* "hello world", " today", "abc", "xyz"
HelloWorld == <<104, 101, 108, 108, 111, 32, 119, 111, 114, 108, 100>>

Today == <<32, 116, 111, 100, 97, 121>>

Abc == <<97, 98, 99>>

Xyz == <<120, 121, 122>>

\* the input of the test render_with_lambda_replaces_references, and two
\* messages shorter than min_match_len
ScenarioInputs ==
    {[messages |-> <<HelloWorld, HelloWorld \o Today>>, min_match_len |-> 10],
     [messages |-> <<Abc, Xyz>>, min_match_len |-> 4]}

\* n times the byte "a"
Run(n) == [x \in 1..n |-> 97]

\* messages whose 1-byte k-mer "a" occurs more often than the per-lookup caps:
\* a run one byte longer than the cap followed by a longer run, and a run
\* whose last "a" alone is followed by "b"
LongInputs ==
    {[messages |-> <<Run(CAP_LEN + 1), Run(CAP_LEN + 2)>>, min_match_len |-> 1],
     [messages |-> <<Run(MaxCandidates + 1) \o <<98>>, <<97, 98>>>>, min_match_len |-> 1]}

\* two messages whose 10 bytes have equal hashes, as have their first bytes,
\* while the hashes of their first 2..9 bytes differ
PrefixedCollision ==
    {[messages |-> <<<<97>> \o CollA, <<97>> \o CollB>>, min_match_len |-> 1]}

\* message 1 repeats the first 9 bytes of message 0 and goes on with 9 bytes
\* that differ from message 0's but have the same hash
SplitCopy ==
    {[messages |-> <<CollA \o CollB, CollA \o CollA>>, min_match_len |-> Len(CollA)]}

Inputs ==
    {[messages |-> l, min_match_len |-> k] :
        l \in ShortLists \cup PairLists \cup Utf8Lists, k \in 1..MaxMinMatchLen}
    \cup {[messages |-> l, min_match_len |-> Len(CollA)] : l \in CollisionLists}
    \cup ScenarioInputs
    \cup LongInputs
    \cup PrefixedCollision
    \cup SplitCopy

Lookbacks == {NoLookback} \cup {SomeLookback(n) : n \in 0..MaxLookback}

Init ==
    \E inp \in Inputs, lb \in Lookbacks, a \in Algos :
        /\ algo = a
        /\ messages = inp.messages
        /\ config = [min_match_len |-> inp.min_match_len, lookback |-> lb]
        /\ prefixes = IF a = "greedy" THEN <<>>
                      ELSE [m \in 1..Len(inp.messages) |-> prefix_hashes(inp.messages[m])]
        /\ table = EmptyTable
        /\ seen = {}
        /\ i = 0
        /\ cursor = 0
        /\ segs = <<>>
        /\ inner = <<>>
        /\ pc = "loop"
        /\ replacer = "none"
        /\ ri = 0
        /\ out = <<>>
        /\ calls = <<>>
        /\ observed = NotObserved
        /\ returned = <<>>

\* ---------------------------------------------------------------- actions
BestMatch ==
    IF algo = "greedy" THEN GreedyBestMatch(messages, config, i, cursor)
    ELSE IF algo = "hashed"
    THEN HashedBestMatch(messages, prefixes, table, config.min_match_len, i, cursor)
    ELSE IF algo = "binary"
    THEN BinaryBestMatch(messages, prefixes, table, config.min_match_len, i, cursor)
    ELSE CappedBestMatch(messages, prefixes, table, config.min_match_len, i, cursor)

\* the length pushed in the Reference: Capped extends its winner fully first
EmittedLen(best) ==
    IF algo = "capped"
    THEN extend_candidate_full(prefixes[i + 1], prefixes[best.midx + 1],
                               cursor, best.ref_start, best.len)
    ELSE best.len

LiteralEnd ==
    IF algo = "greedy" THEN GreedyLiteralEnd(messages, config, i, cursor + 1)
    ELSE HashedLiteralEnd(messages, prefixes, table, config.min_match_len, i, cursor + 1)

RenderVars == <<replacer, ri, out, calls, observed, returned>>

InputVars == <<algo, messages, config, prefixes>>

\* head of `for i in 0..messages_vec.len()`: index message i - 1, reset cursor
StartMessage ==
    /\ pc = "loop"
    /\ i < Len(messages)
    /\ IF algo = "greedy" \/ ~(config.min_match_len > 0 /\ i > 0)
       THEN UNCHANGED <<table, seen>>
       ELSE IF algo = "capped"
       THEN LET st == capped_insert_kmers_into_table([table |-> table, seen |-> seen],
                          messages, prefixes, i - 1, config.min_match_len)
            IN  table' = st.table /\ seen' = st.seen
       ELSE /\ table' = insert_kmers_into_table(table, messages, prefixes, i - 1,
                                                config.min_match_len)
            /\ UNCHANGED seen
    /\ cursor' = 0
    /\ segs' = <<>>
    /\ pc' = "scan"
    /\ UNCHANGED <<i, inner>>
    /\ UNCHANGED InputVars
    /\ UNCHANGED RenderVars

EmitReference ==
    /\ pc = "scan"
    /\ cursor < Len(messages[i + 1])
    /\ LET best == BestMatch
       IN  /\ best.some
           /\ LET match_len == EmittedLen(best)
              IN  /\ segs' = Append(segs, Reference(best.midx, best.ref_start, match_len))
                  /\ cursor' = cursor + match_len
    /\ UNCHANGED <<table, seen, i, inner, pc>>
    /\ UNCHANGED InputVars
    /\ UNCHANGED RenderVars

EmitLiteral ==
    /\ pc = "scan"
    /\ cursor < Len(messages[i + 1])
    /\ ~BestMatch.some
    /\ LET literal_end == LiteralEnd
       IN  /\ SliceOk(messages[i + 1], cursor, literal_end)
           /\ segs' = Append(segs, Literal(Slice(messages[i + 1], cursor, literal_end)))
           /\ cursor' = literal_end
    /\ UNCHANGED <<table, seen, i, inner, pc>>
    /\ UNCHANGED InputVars
    /\ UNCHANGED RenderVars

\* the literal slice msg[cursor..literal_end] is off a char boundary: with_config panics
EmitLiteralPanics ==
    /\ pc = "scan"
    /\ cursor < Len(messages[i + 1])
    /\ ~BestMatch.some
    /\ ~SliceOk(messages[i + 1], cursor, LiteralEnd)
    /\ pc' = "panicked"
    /\ UNCHANGED <<table, seen, i, cursor, segs, inner>>
    /\ UNCHANGED InputVars
    /\ UNCHANGED RenderVars

\* `inner.push(segs)` when the while loop ends
FinishMessage ==
    /\ pc = "scan"
    /\ cursor >= Len(messages[i + 1])
    /\ inner' = Append(inner, segs)
    /\ i' = i + 1
    /\ pc' = "loop"
    /\ UNCHANGED <<table, seen, cursor, segs>>
    /\ UNCHANGED InputVars
    /\ UNCHANGED RenderVars

\* the end of with_config of the three matchers without a post-pass
Construct ==
    /\ pc = "loop"
    /\ i >= Len(messages)
    /\ algo # "capped"
    /\ pc' = "built"
    /\ UNCHANGED <<table, seen, i, cursor, segs, inner>>
    /\ UNCHANGED InputVars
    /\ UNCHANGED RenderVars

\* CappedHashedGreedy: the coalescing post-pass, then the struct is built
CoalescePass ==
    /\ pc = "loop"
    /\ i >= Len(messages)
    /\ algo = "capped"
    /\ inner' = Coalesce(inner)
    /\ pc' = "built"
    /\ UNCHANGED <<table, seen, i, cursor, segs>>
    /\ UNCHANGED InputVars
    /\ UNCHANGED RenderVars

\* a caller invokes render_with(replacer) on the matcher just built
RenderWith ==
    /\ pc = "built"
    /\ \E kind \in Replacers : replacer' = kind
    /\ ri' = 0
    /\ out' = <<>>
    /\ calls' = <<>>
    /\ pc' = "rendering"
    /\ UNCHANGED <<table, seen, i, cursor, segs, inner, observed, returned>>
    /\ UNCHANGED InputVars

\* one iteration of `for segs in self.inner.iter()`
RenderMessage ==
    /\ pc = "rendering"
    /\ ri < Len(inner)
    /\ LET acc == RenderSegs(messages, replacer, inner[ri + 1], 1,
                             [s |-> <<>>, calls |-> calls, panicked |-> FALSE])
       IN  /\ ~acc.panicked
           /\ out' = Append(out, acc.s)
           /\ calls' = acc.calls
    /\ ri' = ri + 1
    /\ UNCHANGED <<table, seen, i, cursor, segs, inner, pc, replacer, observed, returned>>
    /\ UNCHANGED InputVars

\* a Reference of message ri is off a char boundary of the message it names:
\* render_with panics after the calls made for the segments before it
RenderPanics ==
    /\ pc = "rendering"
    /\ ri < Len(inner)
    /\ LET acc == RenderSegs(messages, replacer, inner[ri + 1], 1,
                             [s |-> <<>>, calls |-> calls, panicked |-> FALSE])
       IN  /\ acc.panicked
           /\ calls' = acc.calls
    /\ pc' = "panicked"
    /\ UNCHANGED <<table, seen, i, cursor, segs, inner, replacer, ri, out, observed, returned>>
    /\ UNCHANGED InputVars

\* `out` is handed to the caller
RenderReturn ==
    /\ pc = "rendering"
    /\ ri >= Len(inner)
    /\ pc' = "rendered"
    /\ returned' = Append(returned, [replacer |-> replacer, out |-> out])
    /\ UNCHANGED <<table, seen, i, cursor, segs, inner, replacer, ri, out, calls, observed>>
    /\ UNCHANGED InputVars

\* a caller invokes segments() on the built matcher, between renders
Segments ==
    /\ pc \in {"built", "rendered"}
    /\ observed' = Observed(segments(inner))
    /\ UNCHANGED <<table, seen, i, cursor, segs, inner, pc, replacer, ri, out, calls, returned>>
    /\ UNCHANGED InputVars

\* a caller invokes render_with again on a matcher it has already rendered
RenderAgain ==
    /\ pc = "rendered"
    /\ Len(returned) < MaxRenders
    /\ \E kind \in Replacers : replacer' = kind
    /\ ri' = 0
    /\ out' = <<>>
    /\ calls' = <<>>
    /\ pc' = "rendering"
    /\ UNCHANGED <<table, seen, i, cursor, segs, inner, observed, returned>>
    /\ UNCHANGED InputVars

Next ==
    \/ StartMessage
    \/ EmitReference
    \/ EmitLiteral
    \/ EmitLiteralPanics
    \/ FinishMessage
    \/ Construct
    \/ CoalescePass
    \/ RenderWith
    \/ RenderMessage
    \/ RenderPanics
    \/ RenderReturn

Spec == Init /\ [][Next]_vars

\* the built matcher in use: segments() and repeated render_with calls, on
\* lists of up to MaxReuseMsgs messages and on the multi-byte lists
InitReuse == Init /\ (Len(messages) <= MaxReuseMsgs \/ messages \in Utf8Lists)

NextReuse ==
    \/ Next
    \/ Segments
    \/ RenderAgain

SpecReuse == InitReuse /\ [][NextReuse]_vars

\* ================================================================ claims
SegLen(seg) == IF IsLiteral(seg) THEN Len(seg.text) ELSE seg.len

\* total length of the first n segments
RECURSIVE SumLen(_, _)
SumLen(sg, n) == IF n = 0 THEN 0 ELSE SumLen(sg, n - 1) + SegLen(sg[n])

\* the segment lists a state holds, with the 0-based index of their message:
\* the finished messages and, while message i is scanned, its segments so far
Encoded ==
    {[msg |-> m - 1, segs |-> inner[m]] : m \in 1..Len(inner)}
    \cup (IF pc = "scan" THEN {[msg |-> i, segs |-> segs]} ELSE {})

AllReferences ==
    UNION {{[msg |-> e.msg, ref |-> e.segs[n]] :
               n \in {x \in 1..Len(e.segs) : IsReference(e.segs[x])}} : e \in Encoded}

RoundTrip(a) ==
    (algo = a /\ replacer = "identity" /\ pc \in {"rendering", "rendered"})
        => /\ out = SubSeq(messages, 1, ri)
           /\ (pc = "rendered" => out = messages)

C2_HashedRoundTrip == RoundTrip("hashed")

\* C3: HashedGreedyBinary round trip: render_with(identity) reproduces the
\* original messages exactly (the binary-search extension never covers a byte
\* where the current and the referenced message differ).
C3_BinaryRoundTrip == RoundTrip("binary")

\* C4: CappedHashedGreedy round trip: render_with(identity) on the final
\* (coalesced) segments reproduces the original messages exactly.
C4_CappedRoundTrip == RoundTrip("capped")

\* C5: segment coverage, all four matchers: the segments of a message laid end
\* to end cover 0..len(message) with no gap and no overlap (every segment has
\* a positive length and the lengths sum to the message length, to the cursor
\* while the message is being scanned), and each Literal's text equals the
\* message bytes at the positions it covers.
C5_SegmentCoverage ==
    \A e \in Encoded :
        LET msg == messages[e.msg + 1]
            total == SumLen(e.segs, Len(e.segs))
        IN  /\ total = (IF pc = "scan" /\ e.msg = i THEN cursor ELSE Len(msg))
            /\ total <= Len(msg)
            /\ \A n \in 1..Len(e.segs) :
                  /\ SegLen(e.segs[n]) >= 1
                  /\ IsLiteral(e.segs[n]) =>
                        e.segs[n].text = SubSeq(msg, SumLen(e.segs, n - 1) + 1,
                                                SumLen(e.segs, n))

C5_Witness ==
    /\ pc = "built"
    /\ algo = "capped"
    /\ \E m \in 1..Len(inner) :
          /\ Len(inner[m]) >= 2
          /\ \E n \in 1..Len(inner[m]) : IsReference(inner[m][n])
          /\ \E n \in 1..Len(inner[m]) : IsLiteral(inner[m][n])

\* C6: causality, all four matchers: every Reference in the segments of
\* message i has message_idx < i; message 0 holds no Reference.
C6_Causality ==
    \A r \in AllReferences : r.ref.message_idx < r.msg /\ r.msg # 0

C6_Witness ==
    /\ pc = "built"
    /\ Len(inner) = MaxMsgs
    /\ \E n \in 1..Len(inner[MaxMsgs]) :
          IsReference(inner[MaxMsgs][n]) /\ inner[MaxMsgs][n].message_idx = MaxMsgs - 2
    /\ \E n \in 1..Len(inner[MaxMsgs]) :
          IsReference(inner[MaxMsgs][n]) /\ inner[MaxMsgs][n].message_idx = 0

\* C7: bounds, all four matchers: every Reference{message_idx, start, len} has
\* start + len <= len(message[message_idx]) and len >= min_match_len.
C7_Bounds ==
    \A r \in AllReferences :
        /\ r.ref.message_idx + 1 \in 1..Len(messages)
        /\ r.ref.start + r.ref.len <= Len(messages[r.ref.message_idx + 1])
        /\ r.ref.len >= config.min_match_len

C7_Witness ==
    /\ pc = "built"
    /\ algo = "binary"
    /\ config.min_match_len = MaxMinMatchLen
    /\ \E r \in AllReferences :
          /\ r.ref.start > 0
          /\ r.ref.len = config.min_match_len
          /\ r.ref.start + r.ref.len = Len(messages[r.ref.message_idx + 1])

WithinLookback(algos) ==
    (algo \in algos /\ config.lookback.some)
        => \A r \in AllReferences : r.msg - r.ref.message_idx <= config.lookback.val

\* a k-byte match (k = min_match_len) of message m at position c against
\* message j at position s
KMatch(m, c, j, s) ==
    LET k == config.min_match_len
    IN  /\ c + k <= Len(messages[m + 1])
        /\ s + k <= Len(messages[j + 1])
        /\ SubSeq(messages[m + 1], c + 1, c + k) = SubSeq(messages[j + 1], s + 1, s + k)

\* C8: GreedySubstring honours lookback: with lookback = Some(n) every
\* Reference of message i has i - message_idx <= n (n = 0: only Literals); with
\* lookback = None every earlier message is an eligible source: no Literal
\* starts where some earlier message holds a match of min_match_len bytes.
C8_GreedyLookback ==
    /\ WithinLookback({"greedy"})
    /\ (algo = "greedy" /\ config.lookback.some /\ config.lookback.val = 0)
          => AllReferences = {}
    /\ (algo = "greedy" /\ ~config.lookback.some)
          => \A e \in Encoded : \A n \in 1..Len(e.segs) :
                IsLiteral(e.segs[n]) =>
                    ~\E j \in 0..(e.msg - 1) :
                        \E s \in 0..Len(messages[j + 1]) :
                            KMatch(e.msg, SumLen(e.segs, n - 1), j, s)

C8_Witness ==
    /\ algo = "greedy"
    /\ pc = "built"
    /\ config.lookback = SomeLookback(1)
    /\ Len(inner) = 3
    /\ \E n \in 1..Len(inner[3]) : IsReference(inner[3][n])
    /\ \E n \in 1..Len(inner[3]) :
          /\ IsLiteral(inner[3][n])
          /\ \E s \in 0..Len(messages[1]) : KMatch(2, SumLen(inner[3], n - 1), 0, s)

\* C9: HashedGreedy, HashedGreedyBinary and CappedHashedGreedy honour lookback:
\* with lookback = Some(n) every Reference of message i has i - message_idx <= n.
C9_HashedLookback == WithinLookback({"hashed", "binary", "capped"})

\* positions <<m, n>> (1-based) of the Reference segments of the messages
\* rendered so far, and their order: message order, then segment order
RenderedRefs ==
    {p \in UNION {{<<m, n>> : n \in 1..Len(inner[m])} : m \in 1..ri} :
        IsReference(inner[p[1]][p[2]])}

Before(q, p) == q[1] < p[1] \/ (q[1] = p[1] /\ q[2] < p[2])

Rank(p) == Cardinality({q \in RenderedRefs : Before(q, p)}) + 1

\* what segment n of message m contributes to the output: a literal's text, or
\* what the replacer returned for the call made for that Reference
Piece(m, n) ==
    IF IsLiteral(inner[m][n]) THEN inner[m][n].text
    ELSE LET c == calls[Rank(<<m, n>>)]
         IN  Replacer(replacer, c.message_idx, c.start, c.len, c.text)

RECURSIVE PieceSum(_, _)
PieceSum(m, n) == IF n = 0 THEN 0 ELSE PieceSum(m, n - 1) + Len(Piece(m, n))

StoredUnchanged ==
    pc \in {"built", "rendering", "rendered"}
        => (messages' = messages /\ inner' = inner /\ config' = config)

\* C11: a built matcher is immutable: segments(), render_with and
\* render_with_static leave the stored messages and segments unchanged, so
\* what segments() returned still equals the stored segments after any render,
\* and two render_with calls with the same replacer return the same output.
C11_Immutable ==
    /\ [](observed.some => observed.value = inner)
    /\ [](\A a \in 1..Len(returned) : \A b \in 1..Len(returned) :
             returned[a].replacer = returned[b].replacer
                 => returned[a].out = returned[b].out)
    /\ [][StoredUnchanged]_vars

C11_Witness ==
    /\ pc = "rendered"
    /\ Len(returned) = MaxRenders
    /\ returned[1].replacer = returned[MaxRenders].replacer
    /\ observed.some
    /\ \E m \in 1..Len(inner) : \E n \in 1..Len(inner[m]) : IsReference(inner[m][n])
    /\ \E m \in 1..Len(inner) : \E n \in 1..Len(inner[m]) : IsLiteral(inner[m][n])

\* message 1 is message 0 followed by a non-empty suffix, message 0 has at
\* least min_match_len bytes, and no position of the suffix starts a match of
\* min_match_len bytes against message 0
ExtendsFirstMessage ==
    /\ Len(messages) >= 2
    /\ Len(messages[1]) >= config.min_match_len
    /\ Len(messages[2]) > Len(messages[1])
    /\ SubSeq(messages[2], 1, Len(messages[1])) = messages[1]
    /\ \A c \in Len(messages[1])..(Len(messages[2]) - 1) :
          \A s \in 0..Len(messages[1]) : ~KMatch(1, c, 0, s)

ReferenceThenSuffix ==
    inner[2] = <<Reference(0, 0, Len(messages[1])),
                 Literal(SubSeq(messages[2], Len(messages[1]) + 1, Len(messages[2])))>>

CappedEntries == UNION {{table[h][x] : x \in 1..Len(table[h])} : h \in DOMAIN table}

\* C13: CappedHashedGreedy encodes message 1 of ["hello world",
\* "hello world today"], min_match_len = 10, as [Reference{0, 0, 11},
\* Literal(" today")]; and no Literal starts at a cursor where an indexed
\* occurrence in an earlier message matches at least min_match_len bytes.
C13_CappedScenario ==
    (algo = "capped" /\ pc = "built")
        => /\ (messages = <<HelloWorld, HelloWorld \o Today>> /\ config.min_match_len = 10)
                 => inner[2] = <<Reference(0, 0, 11), Literal(Today)>>
           /\ \A m \in 1..Len(inner) : \A n \in 1..Len(inner[m]) :
                 IsLiteral(inner[m][n]) =>
                     \A e \in CappedEntries :
                         e.msg_idx < m - 1
                             => ~KMatch(m - 1, SumLen(inner[m], n - 1), e.msg_idx, e.start)

\* an earlier message j is an eligible source for message m (0-based) under
\* the configured lookback
EligibleSource(m, j) ==
    j < m /\ ~(config.lookback.some /\ m - j > config.lookback.val)

OneLiteral(e) == e.segs = <<Literal(messages[e.msg + 1])>>

\* the finished messages with their segments
Finished == {[msg |-> m - 1, segs |-> inner[m]] : m \in 1..Len(inner)}

ShortOrEmptyAsLiteral ==
    \A e \in Finished :
        LET msg == messages[e.msg + 1]
        IN  /\ (Len(msg) > 0 /\ Len(msg) < config.min_match_len) => OneLiteral(e)
            /\ Len(msg) = 0 => e.segs = <<>>

NoReferenceToShort ==
    \A r \in AllReferences :
        Len(messages[r.ref.message_idx + 1]) >= config.min_match_len

\* C14: degenerate inputs, all four matchers: a non-empty message shorter than
\* min_match_len is one Literal equal to itself; an empty message has no
\* segments; a non-empty message whose eligible earlier messages are all
\* shorter than min_match_len is one Literal equal to itself; no Reference
\* names a message shorter than min_match_len.
C14_Degenerate ==
    /\ ShortOrEmptyAsLiteral
    /\ NoReferenceToShort
    /\ \A e \in Finished :
          (/\ Len(messages[e.msg + 1]) > 0
           /\ \A j \in 0..(e.msg - 1) :
                 EligibleSource(e.msg, j) => Len(messages[j + 1]) < config.min_match_len)
              => OneLiteral(e)

\* C15: cross-algorithm render equivalence: on the same message list and
\* configuration, GreedySubstring, HashedGreedy and HashedGreedyBinary return
\* identical outputs from render_with(identity).
C15_RenderEquivalence ==
    (algo \in ExactAlgos /\ pc = "rendered" /\ replacer = "identity")
        => \A b \in ExactAlgos :
              LET other == render_identity(b, messages, config)
              IN  other.ok => other.out = out

\* the construction as a function agrees with the construction in steps
BuiltAsFunction ==
    (algo \in ExactAlgos /\ pc = "built")
        => inner = [m \in 1..Len(messages) |-> with_config(algo, messages, config)[m].segs]

\* a step of CappedHashedGreedy that pushes a Reference for the winner of the
\* capped pre-check at the cursor
CappedEmits ==
    /\ algo = "capped"
    /\ pc = "scan"
    /\ pc' = "scan"
    /\ segs' # segs

TwoPhase ==
    CappedEmits /\ CappedBestMatch(messages, prefixes, table, config.min_match_len, i, cursor).some
        => LET best == CappedBestMatch(messages, prefixes, table, config.min_match_len,
                                       i, cursor)
               ref == segs'[Len(segs')]
           IN  /\ IsReference(ref)
               /\ ref.message_idx = best.midx
               /\ ref.start = best.ref_start
               /\ ref.len >= best.len
               /\ ref.len <= Len(messages[i + 1]) - cursor
               /\ ref.len <= Len(messages[best.midx + 1]) - best.ref_start

\* C16: two-phase monotonicity in CappedHashedGreedy: at every cursor where a
\* winner is selected, the length returned by the full binary-search extension
\* is >= the capped pre-check length that selected it and <= the bytes
\* remaining in the current message from the cursor and in the referenced
\* message from ref_start.
C16_TwoPhase == [][TwoPhase]_vars

C16_Witness ==
    /\ algo = "capped"
    /\ pc = "scan"
    /\ Len(segs) >= 1
    /\ IsReference(segs[Len(segs)])
    /\ segs[Len(segs)].len > CAP_LEN

\* length of the longest common prefix of message m from c and message j from
\* s (0-based): the first offset where a byte is missing or the bytes differ
CommonPrefix(m, c, j, s) ==
    LET a == messages[m + 1]
        b == messages[j + 1]
        lim == Min(Len(a) - c, Len(b) - s)
        differ == {d \in 0..(lim - 1) : a[c + d + 1] # b[s + d + 1]}
    IN  IF differ = {} THEN lim
        ELSE CHOOSE d \in differ : \A other \in differ : d <= other

\* the pairs (j, s) GreedySubstring may take as the source of a match in message m
EligiblePairs(m) ==
    UNION {{<<j, s>> : s \in 0..(Len(messages[j + 1]) - 1)} :
               j \in {x \in 0..(m - 1) : EligibleSource(m, x)}}

\* some eligible pair matches at least min_match_len bytes at position c of message m
Qualifies(m, c) ==
    \E p \in EligiblePairs(m) : CommonPrefix(m, c, p[1], p[2]) >= config.min_match_len

\* C17: GreedySubstring longest match and tie-break: a Reference{j, s, L}
\* emitted at cursor c of message i has L = the longest common prefix of
\* message[i][c..] and message[j][s..], L is the maximum of that quantity over
\* the eligible pairs, (j, s) is the pair with the lowest j and then the lowest
\* s among those reaching the maximum, and a Literal never starts at a cursor
\* where some eligible pair matches at least min_match_len bytes.
C17_GreedyLongest ==
    algo = "greedy" =>
        \A e \in Encoded : \A n \in 1..Len(e.segs) :
            LET c == SumLen(e.segs, n - 1)
                seg == e.segs[n]
            IN  IF IsLiteral(seg) THEN ~Qualifies(e.msg, c)
                ELSE /\ <<seg.message_idx, seg.start>> \in EligiblePairs(e.msg)
                     /\ seg.len = CommonPrefix(e.msg, c, seg.message_idx, seg.start)
                     /\ \A p \in EligiblePairs(e.msg) :
                           LET L == CommonPrefix(e.msg, c, p[1], p[2])
                           IN  /\ L <= seg.len
                               /\ L = seg.len =>
                                     \/ seg.message_idx < p[1]
                                     \/ seg.message_idx = p[1] /\ seg.start <= p[2]

C17_Witness ==
    /\ algo = "greedy"
    /\ pc = "built"
    /\ \E m \in 1..Len(inner) : \E n \in 1..Len(inner[m]) :
          LET c == SumLen(inner[m], n - 1)
              seg == inner[m][n]
          IN  /\ IsReference(seg)
              /\ \E p \in EligiblePairs(m - 1) :
                    /\ p # <<seg.message_idx, seg.start>>
                    /\ CommonPrefix(m - 1, c, p[1], p[2]) = seg.len
              /\ \E p \in EligiblePairs(m - 1) :
                    /\ p[1] = seg.message_idx
                    /\ p[2] > seg.start
                    /\ CommonPrefix(m - 1, c, p[1], p[2]) >= config.min_match_len
                    /\ CommonPrefix(m - 1, c, p[1], p[2]) < seg.len

\* C18: GreedySubstring literal growth: a Literal starts at a position with no
\* qualifying match, holds no position where a match of min_match_len bytes
\* against an eligible earlier message starts, and ends at the end of the
\* message or at the first position where such a match starts; a Literal that
\* is not the last segment is followed by a Reference.
C18_GreedyLiteral ==
    algo = "greedy" =>
        \A e \in Encoded : \A n \in 1..Len(e.segs) :
            IsLiteral(e.segs[n]) =>
                LET c == SumLen(e.segs, n - 1)
                    d == SumLen(e.segs, n)
                IN  /\ \A p \in c..(d - 1) : ~Qualifies(e.msg, p)
                    /\ d = Len(messages[e.msg + 1]) \/ Qualifies(e.msg, d)
                    /\ n < Len(e.segs) => IsReference(e.segs[n + 1])

C18_Witness ==
    /\ algo = "greedy"
    /\ pc = "built"
    /\ \E m \in 1..Len(inner) : \E n \in 1..(Len(inner[m]) - 1) :
          /\ IsLiteral(inner[m][n])
          /\ Len(inner[m][n].text) >= 2
          /\ IsReference(inner[m][n + 1])

\* the occurrences (j, s) of min_match_len bytes in the messages before message m
OccurrencesBefore(m) ==
    UNION {{<<j, s>> : s \in 0..(Len(messages[j + 1]) - config.min_match_len)} :
               j \in 0..(m - 1)}

OccurrenceHash(o) == range_hash(prefixes[o[1] + 1], o[2], o[2] + config.min_match_len)

\* while message i is matched the index holds exactly the occurrences of the
\* messages before i, each under its hash, each bucket ascending by (j, s)
IndexOneBehind ==
    (algo \in {"hashed", "binary"} /\ pc = "scan")
        => /\ Len(inner) = i
           /\ \A o \in OccurrencesBefore(i) :
                 /\ OccurrenceHash(o) \in DOMAIN table
                 /\ \E x \in 1..Len(table[OccurrenceHash(o)]) : table[OccurrenceHash(o)][x] = o
           /\ \A h \in DOMAIN table :
                 /\ Len(table[h]) >= 1
                 /\ \A x \in 1..Len(table[h]) :
                       /\ table[h][x] \in OccurrencesBefore(i)
                       /\ OccurrenceHash(table[h][x]) = h
                       /\ \A y \in (x + 1)..Len(table[h]) : Before(table[h][x], table[h][y])

\* a step keeps every bucket as a prefix of the bucket it becomes, and moves
\* to the next message only
IndexGrows ==
    algo \in {"hashed", "binary"}
        => /\ i' \in {i, i + 1}
           /\ \A h \in DOMAIN table :
                 /\ h \in DOMAIN table'
                 /\ Len(table'[h]) >= Len(table[h])
                 /\ SubSeq(table'[h], 1, Len(table[h])) = table[h]

\* C19: index one message behind the cursor (HashedGreedy, HashedGreedyBinary):
\* messages are matched in increasing index order; while message i is matched
\* the k-mer index holds exactly the occurrences (j, s) with j < i and
\* s + k <= len(message[j]), each under the hash of its k bytes, in insertion
\* order ascending by (j, s); entries are only added, never removed or changed.
C19_IndexOneBehind == []IndexOneBehind /\ [][IndexGrows]_vars

C19_Witness ==
    /\ algo = "hashed"
    /\ pc = "scan"
    /\ i = 2
    /\ cursor > 0
    /\ \E h \in DOMAIN table :
          \E x \in 1..Len(table[h]) : \E y \in 1..Len(table[h]) :
              table[h][x][1] = 0 /\ table[h][y][1] = 1
    /\ Len(messages[3]) >= config.min_match_len

\* the extension of candidate o = (j, s) at cursor c of the message being matched
Extension(c, o) ==
    IF algo = "hashed"
    THEN extend_candidate(messages[i + 1], messages[o[1] + 1], c, o[2], config.min_match_len)
    ELSE extend_candidate_binary(prefixes[i + 1], prefixes[o[1] + 1], c, o[2],
                                 config.min_match_len)

\* the bucket looked up at cursor c of the message being matched
BucketAt(c) == table[range_hash(prefixes[i + 1], c, c + config.min_match_len)]

KeyPresent(p) ==
    /\ p + config.min_match_len <= Len(messages[i + 1])
    /\ range_hash(prefixes[i + 1], p, p + config.min_match_len) \in DOMAIN table

\* C21: literal break by hash presence (HashedGreedy, HashedGreedyBinary): a
\* Literal ends at the first position after its start whose k-mer hash is a key
\* of the index, or at the end of the message; a Reference is emitted at a
\* cursor if and only if the cursor's k-mer hash is a key of the index; a
\* Literal that is not the last segment is followed by a Reference.
C21_LiteralBreak ==
    (algo \in {"hashed", "binary"} /\ pc = "scan")
        => \A n \in 1..Len(segs) :
              LET c == SumLen(segs, n - 1)
                  d == SumLen(segs, n)
              IN  /\ IsReference(segs[n]) <=> KeyPresent(c)
                  /\ IsLiteral(segs[n]) =>
                        /\ \A p \in (c + 1)..(d - 1) : ~KeyPresent(p)
                        /\ d = Len(messages[i + 1]) \/ KeyPresent(d)
                        /\ n < Len(segs) => IsReference(segs[n + 1])

C21_Witness ==
    /\ algo = "binary"
    /\ pc = "scan"
    /\ \E n \in 1..(Len(segs) - 1) :
          /\ IsLiteral(segs[n])
          /\ Len(segs[n].text) >= 2
          /\ IsReference(segs[n + 1])
          /\ KeyPresent(SumLen(segs, n))

\* C22: CappedHashedGreedy, final output: a Literal that is not the last
\* segment of its message is followed by a Reference (no two adjacent
\* Literal segments).
C22_NoAdjacentLiterals ==
    (algo = "capped" /\ pc = "built")
        => \A m \in 1..Len(inner) : \A n \in 1..(Len(inner[m]) - 1) :
              IsLiteral(inner[m][n]) => IsReference(inner[m][n + 1])

\* range-hash equality of L bytes at cursor c of the message being matched
\* and at s of message j
HashEqAt(c, j, s, L) ==
    range_hash(prefixes[i + 1], c, c + L) = range_hash(prefixes[j + 1], s, s + L)

MaxPossible(c, j, s) == Min(Len(messages[i + 1]) - c, Len(messages[j + 1]) - s)

\* the calls of the binary-search extension made at the cursor: one per
\* examined candidate in HashedGreedyBinary, one for the winner in
\* CappedHashedGreedy; [j, s, k0] = referenced message, ref_start, initial_k
ExtensionCalls ==
    IF pc # "scan" \/ cursor >= Len(messages[i + 1]) THEN {}
    ELSE IF algo = "binary"
    THEN IF KeyPresent(cursor)
         THEN {[j |-> BucketAt(cursor)[x][1], s |-> BucketAt(cursor)[x][2],
                k0 |-> config.min_match_len] :
                   x \in 1..Min(Len(BucketAt(cursor)), MaxCandidates)}
         ELSE {}
    ELSE IF algo = "capped"
    THEN LET best == CappedBestMatch(messages, prefixes, table, config.min_match_len,
                                     i, cursor)
         IN  IF best.some THEN {[j |-> best.midx, s |-> best.ref_start, k0 |-> best.len]}
             ELSE {}
    ELSE {}

ExtensionResult(call) ==
    IF algo = "binary"
    THEN extend_candidate_binary(prefixes[i + 1], prefixes[call.j + 1], cursor, call.s, call.k0)
    ELSE extend_candidate_full(prefixes[i + 1], prefixes[call.j + 1], cursor, call.s, call.k0)

\* the precondition of the claim: k0 <= max_possible and hash equality at k0
ExtensionPre(call) ==
    /\ call.k0 <= MaxPossible(cursor, call.j, call.s)
    /\ HashEqAt(cursor, call.j, call.s, call.k0)

\* hash equality at a length of [k0, max_possible] implies it at every
\* shorter length of that range
HashEqDownward(call) ==
    \A a \in call.k0..MaxPossible(cursor, call.j, call.s) :
        HashEqAt(cursor, call.j, call.s, a)
            => \A b \in call.k0..a : HashEqAt(cursor, call.j, call.s, b)

NoLongerHashEq(call, L) ==
    \A L2 \in (L + 1)..MaxPossible(cursor, call.j, call.s) :
        ~HashEqAt(cursor, call.j, call.s, L2)

\* C23: binary-search extension (extend_candidate_binary, extend_candidate_full):
\* called with k0 <= max_possible and hash equality at k0 it returns an L in
\* [k0, max_possible] at which hash equality holds and which is max_possible or
\* has hash inequality at L + 1; L is the largest length of the range with hash
\* equality whenever hash equality at a length of the range implies hash
\* equality at every shorter length of the range.
C23_BinaryExtension ==
    \A call \in ExtensionCalls :
        ExtensionPre(call) =>
            LET L == ExtensionResult(call)
                max_possible == MaxPossible(cursor, call.j, call.s)
            IN  /\ L \in call.k0..max_possible
                /\ HashEqAt(cursor, call.j, call.s, L)
                /\ L = max_possible \/ ~HashEqAt(cursor, call.j, call.s, L + 1)
                /\ HashEqDownward(call) => NoLongerHashEq(call, L)

C23_Witness ==
    /\ algo = "binary"
    /\ \E call \in ExtensionCalls :
          /\ ExtensionPre(call)
          /\ HashEqDownward(call)
          /\ ExtensionResult(call) > call.k0
          /\ ExtensionResult(call) < MaxPossible(cursor, call.j, call.s)

\* C23 as stated: the returned L is the largest length of [k0, max_possible]
\* with hash equality, on every call that meets the precondition.
C23_LargestAlways ==
    \A call \in ExtensionCalls :
        ExtensionPre(call) =>
            LET L == ExtensionResult(call)
            IN  /\ L \in call.k0..MaxPossible(cursor, call.j, call.s)
                /\ HashEqAt(cursor, call.j, call.s, L)
                /\ NoLongerHashEq(call, L)

\* the polynomial hash of the bytes of t computed from scratch:
\* t[1]*base^(n-1) + ... + t[n], modulo 2^64
RECURSIVE ScratchHash(_, _)
ScratchHash(t, n) ==
    IF n = 0 THEN U64Of(0)
    ELSE wrapping_add(wrapping_mul(ScratchHash(t, n - 1), U64Of(base)), U64Of(t[n]))

\* the same polynomial as an integer, for the short t whose value is below 2^24
RECURSIVE IntPoly(_, _)
IntPoly(t, n) == IF n = 0 THEN 0 ELSE IntPoly(t, n - 1) * base + t[n]

\* the messages short enough to hash every substring of from scratch; the
\* prefix tables are built before the loop and do not depend on lookback
HashedMessages == {m \in 1..Len(messages) : Len(messages[m]) <= MaxHashLen}

RangeHashIsPolynomial ==
    \A m \in 1..Len(messages) : \A l \in 0..Len(messages[m]) :
        /\ range_hash(prefixes[m], l, l) = U64Of(0)
        /\ \A r \in (l + 1)..Len(messages[m]) :
              /\ range_hash(prefixes[m], l, r) =
                     wrapping_add(wrapping_mul(range_hash(prefixes[m], l, r - 1), U64Of(base)),
                                  U64Of(messages[m][r]))
              /\ m \in HashedMessages =>
                     range_hash(prefixes[m], l, r) =
                         ScratchHash(Slice(messages[m], l, r), r - l)
              /\ r - l <= 2 =>
                     range_hash(prefixes[m], l, r) =
                         U64Of(IntPoly(Slice(messages[m], l, r), r - l))

EqualBytesEqualHash ==
    \A m1 \in HashedMessages : \A m2 \in {m \in HashedMessages : m >= m1} :
        \A l1 \in 0..Len(messages[m1]) : \A l2 \in 0..Len(messages[m2]) :
            \A n \in 0..Min(Len(messages[m1]) - l1, Len(messages[m2]) - l2) :
                Slice(messages[m1], l1, l1 + n) = Slice(messages[m2], l2, l2 + n)
                    => range_hash(prefixes[m1], l1, l1 + n) =
                           range_hash(prefixes[m2], l2, l2 + n)

\* C24: rolling hash: with h[0] = 0, h[r] = h[r-1]*257 + byte(r-1), p[0] = 1,
\* p[r] = p[r-1]*257, modulo 2^64, range_hash(l, r) = h[r] - h[l]*p[r-l] equals
\* the polynomial hash of s[l..r) computed from scratch for every
\* 0 <= l <= r <= len(s); byte-equal substrings of any messages have equal
\* range hashes.
C24_RollingHash ==
    (algo \in {"hashed", "binary"} /\ ~config.lookback.some /\ pc = "loop" /\ i = 0)
        => RangeHashIsPolynomial /\ EqualBytesEqualHash

C24_Witness ==
    /\ algo = "hashed"
    /\ ~config.lookback.some
    /\ pc = "loop"
    /\ i = 0
    /\ Len(messages) >= 2
    /\ \E l \in 1..Len(messages[1]) : \E r \in 1..Len(messages[1]) :
          /\ r - l > HashBytes
          /\ r <= Len(messages[2])
          /\ Slice(messages[1], l, r) = Slice(messages[2], l, r)
          /\ range_hash(prefixes[1], l, r) = ScratchHash(Slice(messages[2], l, r), r - l)
    /\ \E l \in 1..Len(messages[1]) :
          /\ Len(messages[2]) >= 2
          /\ Len(messages[1]) >= l + 2
          /\ Slice(messages[1], l, l + 2) = Slice(messages[2], 0, 2)

\* how many messages CappedHashedGreedy has indexed: message i - 1 is indexed
\* at the head of iteration i
IndexedCount == IF pc = "scan" THEN i ELSE IF i = 0 THEN 0 ELSE i - 1

\* the occurrences of min_match_len bytes in the indexed messages
IndexedOccurrences ==
    UNION {{<<j, s>> : s \in 0..(Len(messages[j + 1]) - config.min_match_len)} :
               j \in 0..(IndexedCount - 1)}

\* the pair (k-mer hash, cap-window hash) of occurrence o = (j, s)
DedupPair(o) ==
    <<range_hash(prefixes[o[1] + 1], o[2], o[2] + config.min_match_len),
      range_hash(prefixes[o[1] + 1], o[2], Min(Len(messages[o[1] + 1]), o[2] + 64))>>

\* the positions <<h, x>> of the index: entry x of the bucket of key h
EntryPositions == UNION {{<<h, x>> : x \in 1..Len(table[h])} : h \in DOMAIN table}

EntryAt(q) == table[q[1]][q[2]]

EntryPair(q) == <<q[1], EntryAt(q).cap_hash>>

\* C25: CappedHashedGreedy bucket dedup: at every point of construction no two
\* index entries have the same pair (k-mer hash, cap-window hash), the window
\* being bytes [start, min(len(message), start + 64)); an occurrence whose
\* pair is already present is skipped, so the entry kept for each pair is its
\* first occurrence in ascending (message index, start) order.
C25_BucketDedup ==
    (algo = "capped" /\ pc \in {"loop", "scan"}) =>
        /\ \A q \in EntryPositions :
              /\ <<EntryAt(q).msg_idx, EntryAt(q).start>> \in IndexedOccurrences
              /\ EntryPair(q) = DedupPair(<<EntryAt(q).msg_idx, EntryAt(q).start>>)
              /\ \A q2 \in EntryPositions : EntryPair(q2) = EntryPair(q) => q2 = q
              /\ \A o \in IndexedOccurrences :
                    DedupPair(o) = EntryPair(q)
                        => \/ EntryAt(q).msg_idx < o[1]
                           \/ EntryAt(q).msg_idx = o[1] /\ EntryAt(q).start <= o[2]
        /\ \A o \in IndexedOccurrences : \E q \in EntryPositions : EntryPair(q) = DedupPair(o)
        /\ seen = {EntryPair(q) : q \in EntryPositions}

C25_Witness ==
    /\ algo = "capped"
    /\ pc = "scan"
    /\ i = 2
    /\ \E o \in IndexedOccurrences :
          /\ o[1] = 1
          /\ \A q \in EntryPositions : <<EntryAt(q).msg_idx, EntryAt(q).start>> # o
    /\ \E o \in IndexedOccurrences :
          /\ o[1] = 1
          /\ \E q \in EntryPositions : <<EntryAt(q).msg_idx, EntryAt(q).start>> = o

\* References r1, r2 where r2 continues r1 in the same source message
Contiguous(r1, r2) ==
    /\ IsReference(r1)
    /\ IsReference(r2)
    /\ r2.message_idx = r1.message_idx
    /\ r2.start = r1.start + r1.len

NoContiguousPair(sg) == \A n \in 1..(Len(sg) - 1) : ~Contiguous(sg[n], sg[n + 1])

\* the bytes a segment list stands for: literal texts and referenced bytes
RECURSIVE RenderBytes(_, _)
RenderBytes(sg, n) ==
    IF n = 0 THEN <<>>
    ELSE RenderBytes(sg, n - 1) \o
             (IF IsLiteral(sg[n]) THEN sg[n].text
              ELSE Slice(messages[sg[n].message_idx + 1], sg[n].start,
                         sg[n].start + sg[n].len))

\* the segments of `old` that lie inside the span of segment n of `new`
Group(old, new, n) ==
    {x \in 1..Len(old) : /\ SumLen(old, x - 1) >= SumLen(new, n - 1)
                         /\ SumLen(old, x) <= SumLen(new, n)}

\* `new` is `old` with runs of contiguous References merged and nothing else
\* changed: every segment of `new` spans whole segments of `old`, a Literal
\* spans itself alone, a Reference spans References to the same message that
\* start where the one before ends
MergedFrom(old, new) ==
    /\ SumLen(new, Len(new)) = SumLen(old, Len(old))
    /\ \A n \in 1..Len(new) :
          /\ \E x \in Group(old, new, n) : SumLen(old, x - 1) = SumLen(new, n - 1)
          /\ \E x \in Group(old, new, n) : SumLen(old, x) = SumLen(new, n)
          /\ IsLiteral(new[n]) => \A x \in Group(old, new, n) : old[x] = new[n]
          /\ IsReference(new[n]) =>
                \A x \in Group(old, new, n) :
                    /\ IsReference(old[x])
                    /\ old[x].message_idx = new[n].message_idx
                    /\ old[x].start = new[n].start + SumLen(old, x - 1) - SumLen(new, n - 1)
    /\ RenderBytes(new, Len(new)) = RenderBytes(old, Len(old))

\* the step that runs the coalescing pass
CoalesceStep ==
    (algo = "capped" /\ pc = "loop" /\ pc' = "built")
        => /\ Len(inner') = Len(inner)
           /\ \A m \in 1..Len(inner) : MergedFrom(inner[m], inner'[m])

CoalescedFinal ==
    (algo = "capped" /\ pc = "built")
        => /\ \A m \in 1..Len(inner) : NoContiguousPair(inner[m])
           /\ Coalesce(inner) = inner

\* C26: CappedHashedGreedy post-pass coalescing: in the final segments no two
\* consecutive segments are References r1, r2 with r2.message_idx =
\* r1.message_idx and r2.start = r1.start + r1.len; the pass merges only such
\* pairs (a run into one Reference whose len is the sum), leaves every Literal
\* and every other Reference unchanged and in order, preserves each message's
\* total segment length and its identity render; applying the pass again
\* changes nothing.
C26_Coalescing == []CoalescedFinal /\ [][CoalesceStep]_vars

C26_Witness ==
    /\ algo = "capped"
    /\ pc = "built"
    /\ \E m \in 1..Len(inner) : \E n \in 1..Len(inner[m]) :
          /\ IsReference(inner[m][n])
          /\ inner[m][n].len = 2 * Len(CollA)
    /\ Len(messages) = 2
    /\ messages[2] = CollA \o CollA

\* with_config has returned or panicked
Constructed == pc \notin {"loop", "scan"}

\* a step inside the `while cursor < msg.len()` loop emits one segment of at
\* least one byte and moves the cursor forward by its length
CursorGrows ==
    (pc = "scan" /\ pc' = "scan")
        => /\ Len(segs') = Len(segs) + 1
           /\ SubSeq(segs', 1, Len(segs)) = segs
           /\ SegLen(segs'[Len(segs')]) >= 1
           /\ cursor' = cursor + SegLen(segs'[Len(segs')])
           /\ cursor' <= Len(messages[i + 1])
           /\ i' = i

SegmentsBound == \A e \in Encoded : Len(e.segs) <= Len(messages[e.msg + 1])

\* every iteration of the binary search started by `call` keeps
\* low <= high inside the old bounds and strictly shrinks high - low
RECURSIVE SearchShrinks(_, _, _)
SearchShrinks(call, low, high) ==
    low < high =>
        LET bounds == BinaryStep(prefixes[i + 1], prefixes[call.j + 1], cursor, call.s,
                                 low, high)
        IN  /\ low <= bounds[1]
            /\ bounds[1] <= bounds[2]
            /\ bounds[2] <= high
            /\ bounds[2] - bounds[1] < high - low
            /\ SearchShrinks(call, bounds[1], bounds[2])

BinaryShrinks ==
    \A call \in ExtensionCalls :
        SearchShrinks(call, call.k0, MaxPossible(cursor, call.j, call.s))

\* message m (0-based) still to be encoded costs one step to start, at most
\* one per byte, and one to finish
RECURSIVE StepsFor(_)
StepsFor(m) ==
    IF m >= Len(messages) THEN 0 ELSE Len(messages[m + 1]) + 2 + StepsFor(m + 1)

\* an upper bound on the steps with_config still has to take
Remaining ==
    IF Constructed THEN 0
    ELSE IF pc = "loop" THEN 1 + StepsFor(i)
    ELSE 1 + (Len(messages[i + 1]) - cursor + 1) + StepsFor(i + 1)

\* every step of with_config lowers the bound
Progress == ~Constructed => (Remaining' < Remaining /\ Remaining' >= 0)

\* C27: construction terminates for every finite message list in all four
\* matchers: every step of with_config lowers a bound that is never negative;
\* within a message the cursor strictly increases at every step because every
\* emitted segment has length >= 1, the binary-search loop strictly shrinks
\* high - low, and the number of segments of message i is at most
\* len(message[i]).
C27_Termination ==
    /\ [][Progress]_vars
    /\ [][CursorGrows]_vars
    /\ []SegmentsBound
    /\ []BinaryShrinks

C27_Witness ==
    /\ algo = "capped"
    /\ pc = "built"
    /\ Len(messages) = MaxMsgs
    /\ \E m \in 1..Len(inner) :
          /\ Len(inner[m]) = Len(messages[m])
          /\ Len(inner[m]) >= 2

\* the prefix hash tables of the messages, whichever matcher is running
HashPrefixes ==
    IF algo = "greedy" THEN [m \in 1..Len(messages) |-> prefix_hashes(messages[m])]
    ELSE prefixes

\* the k-mer index once every message but the last is in it
FinalTable(prefs) ==
    IF Len(messages) = 0 THEN EmptyTable
    ELSE TableBefore(messages, prefs, config.min_match_len, Len(messages) - 1)

BucketsWithin(tbl) == \A h \in DOMAIN tbl : Len(tbl[h]) <= MaxCandidates

SmallBuckets == BucketsWithin(FinalTable(HashPrefixes))

\* equal range hashes of two substrings of the messages imply equal bytes
FaithfulOn(prefs) ==
    \A m1 \in 1..Len(messages) : \A m2 \in m1..Len(messages) :
        \A l1 \in 0..Len(messages[m1]) : \A l2 \in 0..Len(messages[m2]) :
            \A n \in 1..Min(Len(messages[m1]) - l1, Len(messages[m2]) - l2) :
                \/ Slice(messages[m1], l1, l1 + n) = Slice(messages[m2], l2, l2 + n)
                \/ range_hash(prefs[m1], l1, l1 + n) # range_hash(prefs[m2], l2, l2 + n)

HashFaithful == FaithfulOn(HashPrefixes)

\* C28: segment-level equivalence of the exact matchers: for min_match_len >= 1,
\* lookback = None, inputs on which hash equality of two substrings implies
\* their byte equality and on which no index bucket holds more than 64
\* entries, GreedySubstring, HashedGreedy and HashedGreedyBinary produce
\* identical segments().
C28_SegmentEquivalence ==
    (/\ algo \in ExactAlgos
     /\ pc = "built"
     /\ ~config.lookback.some
     /\ SmallBuckets
     /\ HashFaithful)
        => \A b \in ExactAlgos :
              LET other == with_config(b, messages, config)
              IN  \A m \in 1..Len(messages) :
                      ~other[m].panicked /\ other[m].segs = segments(inner)[m]

C28_Witness ==
    /\ algo = "greedy"
    /\ pc = "built"
    /\ ~config.lookback.some
    /\ SmallBuckets
    /\ HashFaithful
    /\ Len(messages) = MaxMsgs
    /\ \E n \in 1..(Len(inner[MaxMsgs]) - 1) :
          /\ IsReference(inner[MaxMsgs][n])
          /\ IsReference(inner[MaxMsgs][n + 1])
          /\ inner[MaxMsgs][n].message_idx # inner[MaxMsgs][n + 1].message_idx

\* C29: construction and rendering never abort on multi-byte UTF-8 text: no
\* string slice of with_config or render_with is taken off a character
\* boundary, and every Reference of a finished message names a range of the
\* referenced message that starts and ends on a character boundary.
C29_Utf8NeverAborts ==
    /\ pc # "panicked"
    /\ \A m \in 1..Len(inner) : \A n \in 1..Len(inner[m]) :
          IsReference(inner[m][n]) =>
              SliceOk(messages[inner[m][n].message_idx + 1], inner[m][n].start,
                      inner[m][n].start + inner[m][n].len)

\* the longest k for which base^k <= 2^(8 * HashBytes): base lies just above
\* 2^8, so base^k fits for every k below the number of bytes of a hash
MaxExactK == HashBytes - 1

\* two substrings of the messages of the same length of at most MaxExactK bytes
\* have equal range hashes only if they are byte-equal
ShortHashesExact ==
    \A m1 \in 1..Len(messages) : \A m2 \in m1..Len(messages) :
        \A l1 \in 0..Len(messages[m1]) : \A l2 \in 0..Len(messages[m2]) :
            \A n \in 1..Min(MaxExactK, Min(Len(messages[m1]) - l1, Len(messages[m2]) - l2)) :
                \/ Slice(messages[m1], l1, l1 + n) = Slice(messages[m2], l2, l2 + n)
                \/ range_hash(prefixes[m1], l1, l1 + n) # range_hash(prefixes[m2], l2, l2 + n)

\* the bucket the lookup at the cursor retrieves
RetrievedCandidates ==
    LET k == config.min_match_len
    IN  IF pc = "scan" /\ Len(messages[i + 1]) >= cursor + k
        THEN LET key == range_hash(prefixes[i + 1], cursor, cursor + k)
             IN  IF key \in DOMAIN table THEN table[key] ELSE <<>>
        ELSE <<>>

\* every retrieved candidate is a k-byte match of the bytes at the cursor
CandidatesAreMatches ==
    LET k == config.min_match_len
        cands == RetrievedCandidates
    IN  \A n \in 1..Len(cands) :
            /\ cands[n][2] + k <= Len(messages[cands[n][1] + 1])
            /\ Slice(messages[cands[n][1] + 1], cands[n][2], cands[n][2] + k)
                   = Slice(messages[i + 1], cursor, cursor + k)

\* every Reference names bytes equal to the bytes it covers
ReferencesByteExact ==
    \A e \in Encoded : \A n \in 1..Len(e.segs) :
        IsReference(e.segs[n]) =>
            LET seg == e.segs[n]
                c == SumLen(e.segs, n - 1)
            IN  /\ seg.start + seg.len <= Len(messages[seg.message_idx + 1])
                /\ c + seg.len <= Len(messages[e.msg + 1])
                /\ Slice(messages[seg.message_idx + 1], seg.start, seg.start + seg.len)
                       = Slice(messages[e.msg + 1], c, c + seg.len)

\* C30: no k-mer collisions for short k: with base 257 and 64-bit hashes, two
\* substrings of k <= 7 bytes have equal range_hash only if they are
\* byte-equal; hence for min_match_len <= 7 every candidate HashedGreedy
\* retrieves from the index is a true k-byte match and every Reference it
\* emits is byte-exact.
C30_NoShortCollisions ==
    algo = "hashed" =>
        /\ (pc = "loop" /\ i = 0 /\ ~config.lookback.some) => ShortHashesExact
        /\ config.min_match_len <= MaxExactK =>
              CandidatesAreMatches /\ ReferencesByteExact

C30_Witness ==
    /\ algo = "hashed"
    /\ config.min_match_len <= MaxExactK
    /\ pc = "scan"
    /\ Len(RetrievedCandidates) >= 2
    /\ \E n \in 1..Len(segs) :
          IsReference(segs[n]) /\ segs[n].len > config.min_match_len

====
